---- MODULE Spec2Model ----
(***************************************************************************)
(* Scout (core/scout.py): the crawl frontier and orchestration loop, the   *)
(* cluster registry, the per-page visit, the login flow and the response   *)
(* handler with its intercept buffer, as a state machine; SimpleScout      *)
(* (core/simple_scout.py) as a second one; PageSelector (core/selector.py) *)
(* and the structural fingerprint (utils/dom_processor.py) as functions    *)
(* applied to inputs drawn from bounded sets.                              *)
(*                                                                         *)
(* The renderer (Playwright) is the environment: every value it returns    *)
(* (navigation response, final URL, page content, link lists, selector     *)
(* searches) is an input chosen with \E from a small set.                  *)
(***************************************************************************)
EXTENDS Integers, Sequences, FiniteSets, TLC

\* ------------------------------------------------------------------ bounds
MaxPages == 7       \* max_pages is drawn from 1..MaxPages
MaxDepth == 2       \* max_depth is drawn from 0..MaxDepth
MaxFaults == 2      \* visits per crawl that do not go the plain way
NetPages == 2       \* max_pages of a crawl with response events
MaxResponses == 2   \* response events per crawl
RetryPages == 1     \* max_pages of a crawl with a URL queued twice
MaxTexts == 2       \* texts a document is filled with: 1..MaxTexts
MaxClusters == 3    \* clusters given to the selector: 0..MaxClusters
MaxSelected == 3    \* max_selected is drawn from 0..MaxSelected
SimplePages == 5    \* max_pages of a SimpleScout: 1..SimplePages
FanPages == 2       \* max_pages of a crawl sent to the index page: 1..FanPages
LoginPages == 2     \* max_pages of a crawl with a stepwise login: 1..LoginPages

\* ------------------------------------------------------- program constants
SampleCap == 5      \* len(cluster.sample_urls) < 5
NavCap == 10        \* regular_links[:10]
ErrorStatus == 400  \* response.status >= 400
TreeMaxDepth == 15  \* _build_structure_tree(element, depth=0, max_depth=15)

\* -------------------------------------------------------------------- URLs
\* A URL string is modelled by its urlparse() parts (the scheme is always
\* https and is left out).  host = "" is a relative reference.
Domain == "shop.test"

Url(h, p, q, f) == [host |-> h, path |-> p, query |-> q, frag |-> f]
U(p) == Url(Domain, p, "", "")
NoUrl == Url("", "", "", "")

base_url == U("")

\* urljoin(base, url): an absolute URL is kept, a relative one gets the host.
UrlJoin(base, u) == IF u.host = "" THEN [u EXCEPT !.host = base.host] ELSE u

\* f"{parsed.scheme}://{parsed.netloc}{parsed.path}"
CleanUrl(u) == Url(u.host, u.path, "", "")

\* kw in s, for the strings of this site (s ranges over hosts, paths, queries).
Contains(kw, s) ==
    <<kw, s>> \in { <<"login", "/login">>, <<"login", "next=login">>,
                    <<"signin", "/signin">>, <<"cart", "/cart">>,
                    <<"help", "ref=help">> }

\* kw in url.lower()
UrlContains(kw, u) ==
    Contains(kw, u.host) \/ Contains(kw, u.path) \/ Contains(kw, u.query)
        \/ Contains(kw, u.frag)

important_keywords ==
    { "login", "signin", "sign-in", "signup", "register", "sign-up", "join",
      "sell", "seller", "become-seller", "account", "profile", "dashboard",
      "cart", "checkout", "contact", "about", "help" }

IsImportant(link) == \E kw \in important_keywords : UrlContains(kw, link)

\* -------------------------------------------------------- the site (input)
External == Url("cdn.test", "/", "", "")

\* The template a path is rendered with, and the document served for a URL
\* (the server ignores query and fragment).  shape is what the structural
\* hash sees, text is what it ignores.
Template(p) ==
    CASE p \in {"", "/"} -> "home"
      [] p \in {"/login", "/signin"} -> "form"
      [] p = "/cart" -> "cart"
      [] OTHER -> "product"

Html(u) == [shape |-> Template(u.path), text |-> u.path]

\* a[href] of the document served for a URL, in document order.  /hub is an
\* index page with eleven links that no other page links to.
PageLinks(u) ==
    CASE u.path \in {"", "/"} ->
           << U("/p1"), Url(Domain, "/p2", "page=2", ""), U("/p3"), External,
              Url(Domain, "", "", "top") >>
      [] u.path = "/p1" -> << U("/p4"), U("/p5"), U("/p6"), U("/p1") >>
      [] u.path = "/p2" -> << U("/p1"), U("/p4") >>
      [] u.path = "/p3" -> << U("/p6"), U("/") >>
      [] u.path = "/hub" ->
           << U("/p1"), U("/p2"), U("/p3"), U("/p4"), U("/p5"), U("/p6"),
              U("/cart"), U("/login"), U("/signin"),
              Url(Domain, "/p1", "page=2", ""), U("/p7") >>
      [] OTHER -> << U("/") >>

\* Links of the navigation menu of the homepage, in document order.
NavMenu ==
    << U("/login"), Url(Domain, "/cart", "ref=help", ""), U("/p1"), External,
       Url(Domain, "/p2", "", "top") >>

\* The renderer's answers to page.goto().
NavResults ==
    { [kind |-> "none", status |-> 0], [kind |-> "timeout", status |-> 0],
      [kind |-> "response", status |-> 200],
      [kind |-> "response", status |-> 400],
      [kind |-> "response", status |-> 404] }

\* page.url after navigating to url: no redirect, a redirect to a sign-in
\* page, or a redirect to another page of the site.
FinalUrls(url) ==
    { url, Url(Domain, "/login", "next=login", ""), U("/signin"), U("/p1") }

\* The call of a visit that raises, if any: page.content() (or a wait before
\* it), the construction of a new cluster, or the evaluation of the links.
Exceptions == {"none", "content", "create", "links"}

\* The priority_urls the crawl may be configured with.
PriorityChoices ==
    { <<>>, << Url("", "/p6", "", ""), Url(Domain, "/p3", "page=2", "") >> }

\* ------------------------------------------------------------------- state
VARIABLES
    max_pages, max_depth, priority_urls, has_credentials,   \* configuration
    pc,                       \* position in crawl()
    cur,                      \* url, depth of the loop iteration in flight
    visited_urls, url_queue, clusters, network_logs,
    pages_crawled, pages_skipped_by_clustering, is_authenticated,
    queue_tag, enq_count,     \* history: class and insertion number per entry
    visit_log,                \* history: successful visits, in order
    faults,                   \* history: visits that did not go the plain way
    last,                     \* history: inputs and kind of the last iteration
    login_state,              \* position in _perform_login, then its outcome
    login_obs,                \* what the renderer shows during the login
    page_url,                 \* renderer: the URL of the tab (frame.url)
    loaded,                   \* response, final_url of the visit in flight
    tasks,                    \* _handle_response tasks awaiting response.json()
    resp_count,               \* history: response events so far
    resp_last,                \* history: the last response event
    simple_pc,                \* position in SimpleScout.crawl()
    simple_max_pages,         \* SimpleScout.max_pages
    simple_faults,            \* history: renderer calls of it that raised
    simple_visited, pages, seen_structures,   \* the fields of a SimpleScout
    queue,                    \* the local queue of SimpleScout.crawl()
    selector_pc,              \* position in a call of select_important_pages
    selector_clusters,        \* its argument, in clusters.items() order
    max_selected,             \* PageSelector.max_selected
    selected,                 \* its return value
    html_a, html_b,           \* two documents given to generate_structural_hash
    digests                   \* the two digests returned, <<>> before the calls

config == <<max_pages, max_depth, priority_urls, has_credentials>>
history == <<queue_tag, enq_count, visit_log, faults, last>>
login_vars == <<login_state, login_obs>>
net_vars == <<page_url, loaded, tasks, resp_count, resp_last>>
simple_vars == <<simple_pc, simple_max_pages, simple_faults, simple_visited,
                 pages, seen_structures, queue>>
selector_vars == <<selector_pc, selector_clusters, max_selected, selected>>
fingerprint_vars == <<html_a, html_b, digests>>
pure_vars == <<selector_vars, fingerprint_vars>>
other_vars == <<simple_vars, pure_vars>>
vars == <<max_pages, max_depth, priority_urls, has_credentials, pc, cur,
          visited_urls, url_queue, clusters, network_logs, pages_crawled,
          pages_skipped_by_clustering, is_authenticated, queue_tag, enq_count,
          visit_log, faults, last, login_state, login_obs, page_url, loaded,
          tasks, resp_count, resp_last, simple_pc, simple_max_pages,
          simple_faults, simple_visited, pages, seen_structures, queue,
          selector_pc, selector_clusters, max_selected, selected, html_a,
          html_b, digests>>

Entry(u, d) == [url |-> u, depth |-> d]
NoEntry == Entry(NoUrl, 0)
NoNav == [kind |-> "", status |-> 0]
NoLast == [kind |-> "none", url |-> NoUrl, depth |-> 0, nav |-> NoNav,
           final |-> NoUrl, exc |-> "none"]

Min(a, b) == IF a < b THEN a ELSE b

EmptyMap == [k \in {} |-> NoUrl]

\* The locals of _process_page before page.goto has returned.
NoLoaded == [response |-> NoNav, final_url |-> NoUrl]

\* No response event yet.
NoEvent ==
    [url |-> NoUrl, content_type |-> "", resource_type |-> "", method |-> "",
     post_data |-> "none", body |-> "invalid", status |-> 0, frame |-> FALSE]

\* ---------------------------------------------------------------- helpers
\* The frontier with its history: q is url_queue, t the class and insertion
\* number of each entry, n the number of insertions so far.
Frontier == [q |-> url_queue, t |-> queue_tag, n |-> enq_count]

\* self.url_queue.insert(0, (url, depth))
InsertFront(Q, e, prio) ==
    [q |-> <<e>> \o Q.q, t |-> << [prio |-> prio, n |-> Q.n] >> \o Q.t,
     n |-> Q.n + 1]

\* self.url_queue.append((url, depth))
AppendBack(Q, e, prio) ==
    [q |-> Append(Q.q, e), t |-> Append(Q.t, [prio |-> prio, n |-> Q.n]),
     n |-> Q.n + 1]

\* utils.dom_processor.generate_structural_hash: the digest depends on the
\* structure of the document and on nothing else.
generate_structural_hash(html) == html.shape

\* extract_form_data(html)['total_forms'], len(html), estimate_tokens(cleaned)
FormsFound(html) == IF html.shape = "form" THEN 1 ELSE 0
RawSize(html) == IF html.text = "" THEN 120 ELSE 160
estimate_tokens(n) == n \div 4

\* Variant of CreateCluster: the first URL is not recorded as a sample.
CreateCluster_NoSample(url, structural_hash, html) ==
    [cluster_id |-> structural_hash,
     representative_url |-> url,
     sample_urls |-> <<>>,
     total_pages_in_cluster |-> 1,
     network_intercepts |-> <<>>,
     forms_found |-> FormsFound(html),
     cleaned_dom_tokens |-> estimate_tokens(RawSize(html)),
     raw_dom_size |-> RawSize(html)]

\* Scout._create_cluster
CreateCluster(url, structural_hash, html) ==
    [cluster_id |-> structural_hash,
     representative_url |-> url,
     sample_urls |-> <<url>>,
     total_pages_in_cluster |-> 1,
     network_intercepts |-> <<>>,
     forms_found |-> FormsFound(html),
     cleaned_dom_tokens |-> estimate_tokens(RawSize(html)),
     raw_dom_size |-> RawSize(html)]

\* Variant of MergeCluster: the repeated page becomes the representative.
MergeCluster_NewRep(cluster, url) ==
    [cluster EXCEPT
        !.representative_url = url,
        !.total_pages_in_cluster = @ + 1,
        !.sample_urls = IF Len(@) < SampleCap THEN Append(@, url) ELSE @]

\* Variants of MergeCluster: the counter is not incremented; the sample is
\* appended whatever the length of the list.
MergeCluster_NoCount(cluster, url) ==
    [cluster EXCEPT
        !.sample_urls = IF Len(@) < SampleCap THEN Append(@, url) ELSE @]

MergeCluster_NoCap(cluster, url) ==
    [cluster EXCEPT
        !.total_pages_in_cluster = @ + 1,
        !.sample_urls = Append(@, url)]

\* Scout._process_page, the duplicate branch: count the page, keep its URL
\* as a sample while there is room.
MergeCluster(cluster, url) ==
    [cluster EXCEPT
        !.total_pages_in_cluster = @ + 1,
        !.sample_urls = IF Len(@) < SampleCap THEN Append(@, url) ELSE @]

\* Variant of NavFailed: status > 400.
NavFailed_Above(response) ==
    response.kind # "response" \/ response.status > ErrorStatus

\* if not response or response.status >= 400
NavFailed(response) ==
    response.kind # "response" \/ response.status >= ErrorStatus

\* Variant of IsAuthWall: only 'login' is looked for.
IsAuthWall_LoginOnly(url, final_url) ==
    /\ final_url # url
    /\ UrlContains("login", final_url)

\* final_url != url and ('login' in final_url.lower() or 'signin' in ...)
IsAuthWall(url, final_url) ==
    /\ final_url # url
    /\ UrlContains("login", final_url) \/ UrlContains("signin", final_url)

\* Variants of LoopGuard: <= for <, and a loop that stops one page early.
LoopGuard_OffByOne == url_queue # <<>> /\ pages_crawled <= max_pages

LoopGuard_StopsEarly == url_queue # <<>> /\ pages_crawled + 1 < max_pages

\* while self.url_queue and self.pages_crawled < self.max_pages
LoopGuard == url_queue # <<>> /\ pages_crawled < max_pages

\* Variant of ShouldSkip: the visited set is not consulted.
ShouldSkip_DepthOnly(url, depth) == depth > max_depth

\* if url in self.visited_urls or depth > self.max_depth: continue
ShouldSkip(url, depth) == url \in visited_urls \/ depth > max_depth

\* Variant of ShouldExtract: <= for <.
ShouldExtract_Inclusive(depth) == depth <= max_depth

\* if depth < self.max_depth: await self._extract_links(...)
ShouldExtract(depth) == depth < max_depth

\* Variant of LinkAccepted: the visited set is not consulted.
LinkAccepted_NoVisitedCheck(link, current_url, visited) ==
    UrlJoin(current_url, link).host = Domain

\* Scout._extract_links, one link of the loop.
LinkAccepted(link, current_url, visited) ==
    LET absolute_url == UrlJoin(current_url, link) IN
    /\ absolute_url.host = Domain
    /\ absolute_url \notin visited
    /\ CleanUrl(absolute_url) \notin visited

\* Scout._extract_links: the frontier after the loop over the links.
RECURSIVE ExtractLinks(_, _, _, _, _)
ExtractLinks(Q, links, current_url, current_depth, visited) ==
    IF links = <<>> THEN Q
    ELSE LET link == Head(links)
             Q1 == IF LinkAccepted(link, current_url, visited)
                   THEN AppendBack(Q,
                            Entry(CleanUrl(UrlJoin(current_url, link)),
                                  current_depth + 1), FALSE)
                   ELSE Q
         IN ExtractLinks(Q1, Tail(links), current_url, current_depth, visited)

\* for link in links: if link not in visited: url_queue.insert(0, (link, 0))
RECURSIVE InsertAllFront(_, _, _)
InsertAllFront(Q, links, visited) ==
    IF links = <<>> THEN Q
    ELSE InsertAllFront(
             IF Head(links) \notin visited
             THEN InsertFront(Q, Entry(Head(links), 0), TRUE) ELSE Q,
             Tail(links), visited)

\* for link in links: if link not in visited: url_queue.append((link, 1))
RECURSIVE AppendAllBack(_, _, _)
AppendAllBack(Q, links, visited) ==
    IF links = <<>> THEN Q
    ELSE AppendAllBack(
             IF Head(links) \notin visited
             THEN AppendBack(Q, Entry(Head(links), 1), FALSE) ELSE Q,
             Tail(links), visited)

\* Scout._extract_nav_links: the links of the menu that are not skipped as
\* foreign, cleaned, split by importance (importance is tested on the raw
\* link).
RECURSIVE NavSplit(_, _)
NavSplit(links, important) ==
    IF links = <<>> THEN <<>>
    ELSE LET link == Head(links)
             rest == NavSplit(Tail(links), important)
         IN IF link.host # "" /\ link.host # Domain THEN rest
            ELSE IF IsImportant(link) = important
                 THEN <<CleanUrl(link)>> \o rest
                 ELSE rest

\* urljoin(self.base_url, url) for url in self.priority_urls
RECURSIVE JoinAll(_)
JoinAll(urls) ==
    IF urls = <<>> THEN <<>>
    ELSE <<UrlJoin(base_url, Head(urls))>> \o JoinAll(Tail(urls))

\* dict assignment and del
Put(m, k, v) == [x \in DOMAIN m \cup {k} |-> IF x = k THEN v ELSE m[x]]
Remove(m, k) == [x \in DOMAIN m \ {k} |-> m[x]]

\* ------------------------------------------------------- response events
\* The responses the renderer reports through page.on("response"), by what
\* _handle_response reads of them: response.url, the content-type header,
\* request.resource_type, request.method, request.post_data (none, a JSON
\* object, not JSON), what response.json() gives (a JSON object, a JSON
\* array, or a raise), response.status, and whether request.frame is there.
Api == Url(Domain, "/api/items", "", "")

Event(ct, rt, m, pd, b, fr) ==
    [url |-> Api, content_type |-> ct, resource_type |-> rt, method |-> m,
     post_data |-> pd, body |-> b, status |-> 200, frame |-> fr]

ResponseEvents ==
    { Event("application/json; charset=utf-8", "xhr", "GET", "none",
            "object", TRUE),
      Event("application/json; charset=utf-8", "fetch", "POST", "object",
            "object", TRUE),
      Event("text/html", "document", "GET", "none", "invalid", TRUE),
      Event("application/json; charset=utf-8", "document", "GET", "none",
            "object", TRUE),
      Event("text/html", "xhr", "GET", "none", "invalid", TRUE),
      Event("application/json; charset=utf-8", "xhr", "POST", "malformed",
            "invalid", FALSE),
      Event("application/json; charset=utf-8", "xhr", "GET", "none",
            "array", TRUE) }

\* The responses of the site crawled with response events: GET requests
\* answered with a JSON object or with something that is not JSON.
NetEvents == { ev \in ResponseEvents : ev.method = "GET" /\ ev.body # "array" }

\* 'application/json' in response.headers.get('content-type', '')
IsJsonType(ct) == ct = "application/json; charset=utf-8"

\* Variant of PassesFilter: one of the two tests is enough.
PassesFilter_Either(ev) ==
    IsJsonType(ev.content_type) \/ ev.resource_type \in {"xhr", "fetch"}

\* _handle_response, the two early returns.
PassesFilter(ev) ==
    IsJsonType(ev.content_type) /\ ev.resource_type \in {"xhr", "fetch"}

\* json_body: response.json() in a try, None when it raises.
JsonBody(ev) == IF ev.body = "invalid" THEN "none" ELSE ev.body

\* request_payload: json.loads(request.post_data) for POST, PUT and PATCH,
\* None when there is no body, when it does not parse, or for other methods.
RequestPayload(ev) ==
    IF ev.method \in {"POST", "PUT", "PATCH"} /\ ev.post_data = "object"
    THEN "object" ELSE "none"

\* NetworkIntercept(...) validates: payload_structure and response_structure
\* are Optional[Dict], so a JSON array raises (and the bare except drops
\* the intercept).
Validates(ev) == JsonBody(ev) # "array" /\ RequestPayload(ev) # "array"

\* current_page_url = request.frame.url if request.frame else response.url;
\* origin is the URL the tab had when the response event fired, frame_url
\* the URL it has when the line runs.
AttributionKey(ev, origin, frame_url) ==
    IF ev.frame THEN frame_url ELSE ev.url

\* The NetworkIntercept of a response.  id, ev, origin and late are history:
\* the number of the response event, the event, the URL of the tab when the
\* event fired, and whether the key was a visited URL when the intercept
\* was recorded.
Intercept(t, key) ==
    [url |-> t.ev.url, method |-> t.ev.method, status_code |-> t.ev.status,
     payload_structure |-> RequestPayload(t.ev),
     response_structure |-> JsonBody(t.ev),
     id |-> t.id, ev |-> t.ev, origin |-> t.origin,
     late |-> key \in visited_urls]

\* self.network_logs[key].append(intercept), network_logs a defaultdict(list)
Record(logs, key, intercept) ==
    Put(logs, key,
        Append(IF key \in DOMAIN logs THEN logs[key] ELSE <<>>, intercept))

\* Variant of DrainedLogs: the entry is not deleted.
DrainedLogs_Keep(logs, url) == logs

\* if url in self.network_logs: ...; del self.network_logs[url]
DrainedLogs(logs, url) ==
    IF url \in DOMAIN logs THEN Remove(logs, url) ELSE logs

\* ------------------------------------------------------------------- login
\* What the renderer shows during Scout._perform_login: whether the homepage
\* loads, whether each step's element is found within its timeout, whether
\* the page-load wait after Continue returns, whether a post-login indicator
\* is found, and page.url at the verification step.
LoginObs ==
    [home : BOOLEAN, signin : BOOLEAN, email : BOOLEAN, continue : BOOLEAN,
     load : BOOLEAN, password : BOOLEAN, button : BOOLEAN,
     indicator : BOOLEAN,
     url : {base_url, U("/login"), U("/p1")}]

\* Scout._perform_login: the terminal state of the flow.
PerformLogin(o) ==
    IF ~o.home THEN "Failed"
    ELSE IF ~o.signin THEN "Failed"
    ELSE IF ~o.email THEN "Failed"
    ELSE IF ~o.continue THEN "Failed"
    ELSE IF ~o.load THEN "Failed"
    ELSE IF ~o.password THEN "Failed"
    ELSE IF o.indicator THEN "Verified"
    ELSE IF o.url = base_url \/ ~UrlContains("login", o.url) THEN "Verified"
    ELSE "Unverified"

\* login_obs once _perform_login has returned (or was never called).
NoObs ==
    [home |-> FALSE, signin |-> FALSE, email |-> FALSE, continue |-> FALSE,
     load |-> FALSE, password |-> FALSE, button |-> FALSE,
     indicator |-> FALSE, url |-> NoUrl]

\* The states of the flow in which a step is still to be taken, and the
\* states in which _perform_login returns.
LoginSteps ==
    { "Start", "SignInClicked", "EmailEntered", "ContinueClicked",
      "PasswordPageLoaded", "PasswordEntered", "Submitted" }
LoginTerminal == {"Verified", "Unverified", "Failed"}

\* Step 7: logged_in after the indicator loop and the URL test.
LoggedIn(o) ==
    o.indicator \/ o.url = base_url \/ ~UrlContains("login", o.url)

\* Variant of LoginTry: the password is looked for right after Continue.
LoginTry_SkipsLoad(state, o) ==
    CASE state = "Start" ->
           IF ~o.home THEN "raise"
           ELSE IF ~o.signin THEN "Failed" ELSE "SignInClicked"
      [] state = "SignInClicked" -> IF ~o.email THEN "raise" ELSE "EmailEntered"
      [] state = "EmailEntered" ->
           IF ~o.continue THEN "raise" ELSE "ContinueClicked"
      [] state = "ContinueClicked" ->
           IF ~o.password THEN "Failed" ELSE "PasswordEntered"
      [] state = "PasswordEntered" -> "Submitted"
      [] state = "Submitted" -> IF LoggedIn(o) THEN "Verified" ELSE "Unverified"
      [] OTHER -> state

\* Variant of LoginTry: the page-load wait after Continue is not awaited.
LoginTry_NoLoadWait(state, o) ==
    CASE state = "Start" ->
           IF ~o.home THEN "raise"
           ELSE IF ~o.signin THEN "Failed" ELSE "SignInClicked"
      [] state = "SignInClicked" -> IF ~o.email THEN "raise" ELSE "EmailEntered"
      [] state = "EmailEntered" ->
           IF ~o.continue THEN "raise" ELSE "ContinueClicked"
      [] state = "ContinueClicked" -> "PasswordPageLoaded"
      [] state = "PasswordPageLoaded" ->
           IF ~o.password THEN "Failed" ELSE "PasswordEntered"
      [] state = "PasswordEntered" -> "Submitted"
      [] state = "Submitted" -> IF LoggedIn(o) THEN "Verified" ELSE "Unverified"
      [] OTHER -> state

\* The body of the try block of _perform_login, one step of the flow: the
\* state the step leads to, "Failed" where the code returns False, "raise"
\* where the renderer call of the step raises (goto, and the
\* wait_for_selector / wait_for_load_state calls that are not wrapped).
\* With no submit button the code presses Enter and goes on.
LoginTry(state, o) ==
    CASE state = "Start" ->
           IF ~o.home THEN "raise"
           ELSE IF ~o.signin THEN "Failed" ELSE "SignInClicked"
      [] state = "SignInClicked" -> IF ~o.email THEN "raise" ELSE "EmailEntered"
      [] state = "EmailEntered" ->
           IF ~o.continue THEN "raise" ELSE "ContinueClicked"
      [] state = "ContinueClicked" ->
           IF ~o.load THEN "raise" ELSE "PasswordPageLoaded"
      [] state = "PasswordPageLoaded" ->
           IF ~o.password THEN "Failed" ELSE "PasswordEntered"
      [] state = "PasswordEntered" -> "Submitted"
      [] state = "Submitted" -> IF LoggedIn(o) THEN "Verified" ELSE "Unverified"
      [] OTHER -> state

\* Variant of LoginExcept: no handler, the exception leaves _perform_login.
LoginExcept_None(r) == IF r = "raise" THEN "Escaped" ELSE r

\* except Exception as e: ... return False
LoginExcept(r) == IF r = "raise" THEN "Failed" ELSE r

\* Variant of AuthFlag: the flag is set whenever the verification step is
\* reached.
AuthFlag_Submitted(state) == state \in {"Verified", "Unverified"}

\* if logged_in: self.is_authenticated = True
AuthFlag(state) == state = "Verified"

\* The value _perform_login returns.
LoginReturnValue(state) == state = "Verified"

\* No call of select_important_pages or generate_structural_hash is made.
PureIdle ==
    /\ selector_pc = "idle"
    /\ selector_clusters = <<>>
    /\ max_selected = 0
    /\ selected = <<>>
    /\ html_a = <<>>
    /\ html_b = <<>>
    /\ digests = <<>>

\* No SimpleScout has been constructed.
SimpleIdle ==
    /\ simple_pc = "idle"
    /\ simple_max_pages = 0
    /\ simple_faults = 0
    /\ simple_visited = {}
    /\ pages = <<>>
    /\ seen_structures = {}
    /\ queue = <<>>

\* ----------------------------------------------------------------- actions
Init ==
    /\ max_pages \in 1..MaxPages
    /\ max_depth \in 0..MaxDepth
    /\ priority_urls \in PriorityChoices
    /\ has_credentials \in BOOLEAN
    /\ pc = "login"
    /\ cur = NoEntry
    /\ visited_urls = {}
    /\ url_queue = << Entry(base_url, 0) >>
    /\ clusters = EmptyMap
    /\ network_logs = EmptyMap
    /\ pages_crawled = 0
    /\ pages_skipped_by_clustering = 0
    /\ is_authenticated = FALSE
    /\ queue_tag = << [prio |-> FALSE, n |-> 0] >>
    /\ enq_count = 1
    /\ visit_log = <<>>
    /\ faults = 0
    /\ last = NoLast
    /\ login_state = "Start"
    /\ login_obs = NoObs
    /\ page_url = NoUrl
    /\ loaded = NoLoaded
    /\ tasks = {}
    /\ resp_count = 0
    /\ resp_last = NoEvent
    /\ SimpleIdle
    /\ PureIdle

\* crawl(), step 1: if self.login_email and self.login_password:
\* await self._perform_login(page)
CrawlLogin ==
    /\ UNCHANGED <<login_vars, net_vars, other_vars>>
    /\ pc = "login"
    /\ pc' = "nav"
    /\ IF has_credentials
       THEN \E o \in LoginObs :
                is_authenticated' = (PerformLogin(o) = "Verified")
       ELSE UNCHANGED is_authenticated
    /\ UNCHANGED <<config, cur, visited_urls, url_queue, clusters,
                   network_logs, pages_crawled, pages_skipped_by_clustering,
                   history>>

\* crawl(), step 2: Scout._extract_nav_links.  ok = FALSE is an exception of
\* the renderer (goto or evaluate), which the method catches.
ExtractNavLinks ==
    /\ UNCHANGED <<login_vars, net_vars, other_vars>>
    /\ pc = "nav"
    /\ pc' = "priority"
    /\ \E ok \in BOOLEAN :
        LET priority_links == NavSplit(NavMenu, TRUE)
            regular_links == NavSplit(NavMenu, FALSE)
            Q1 == InsertAllFront(Frontier, priority_links, visited_urls)
            Q2 == AppendAllBack(Q1,
                      SubSeq(regular_links, 1,
                             Min(NavCap, Len(regular_links))),
                      visited_urls)
            Q == IF ok THEN Q2 ELSE Frontier
        IN /\ url_queue' = Q.q
           /\ queue_tag' = Q.t
           /\ enq_count' = Q.n
    /\ UNCHANGED <<config, cur, visited_urls, clusters, network_logs,
                   pages_crawled, pages_skipped_by_clustering,
                   is_authenticated, visit_log, faults, last>>

\* crawl(), step 3: the priority URLs go to the front of the queue.
AddPriorityUrls ==
    /\ UNCHANGED <<login_vars, net_vars, other_vars>>
    /\ pc = "priority"
    /\ pc' = "loop"
    /\ LET Q == InsertAllFront(Frontier, JoinAll(priority_urls), visited_urls)
       IN /\ url_queue' = Q.q
          /\ queue_tag' = Q.t
          /\ enq_count' = Q.n
    /\ UNCHANGED <<config, cur, visited_urls, clusters, network_logs,
                   pages_crawled, pages_skipped_by_clustering,
                   is_authenticated, visit_log, faults, last>>

\* crawl(), step 4, the head of one iteration: pop the first entry and
\* either skip it or start visiting it.
Pop ==
    /\ UNCHANGED <<login_vars, net_vars, other_vars>>
    /\ pc = "loop"
    /\ LoopGuard
    /\ LET e == Head(url_queue) IN
        /\ url_queue' = Tail(url_queue)
        /\ queue_tag' = Tail(queue_tag)
        /\ IF ShouldSkip(e.url, e.depth)
           THEN /\ pc' = "loop"
                /\ cur' = NoEntry
                /\ last' = [NoLast EXCEPT !.kind = "skipped", !.url = e.url,
                                          !.depth = e.depth]
           ELSE /\ pc' = "visiting"
                /\ cur' = e
                /\ last' = NoLast
    /\ UNCHANGED <<config, visited_urls, clusters, network_logs,
                   pages_crawled, pages_skipped_by_clustering,
                   is_authenticated, enq_count, visit_log, faults>>

\* The bookkeeping of a successful visit (scout.py 393-420): resolve the
\* cluster, drain the intercept buffer, mark visited, count, extract links.
\* links is the a[href] list, or <<>> when link extraction raised.
Bookkeep(url, depth, html, links) ==
    LET structural_hash == generate_structural_hash(html)
        is_new_cluster == structural_hash \notin DOMAIN clusters
        cluster == IF is_new_cluster
                   THEN CreateCluster(url, structural_hash, html)
                   ELSE MergeCluster(clusters[structural_hash], url)
        drained == IF url \in DOMAIN network_logs
                   THEN [cluster EXCEPT !.network_intercepts =
                                            @ \o network_logs[url]]
                   ELSE cluster
        visited == visited_urls \cup {url}
        Q == IF ShouldExtract(depth)
             THEN ExtractLinks(Frontier, links, url, depth, visited)
             ELSE Frontier
    IN /\ clusters' = Put(clusters, structural_hash, drained)
       /\ pages_skipped_by_clustering' =
              IF is_new_cluster THEN pages_skipped_by_clustering
              ELSE pages_skipped_by_clustering + 1
       /\ network_logs' = DrainedLogs(network_logs, url)
       /\ visited_urls' = visited
       /\ pages_crawled' = pages_crawled + 1
       /\ url_queue' = Q.q
       /\ queue_tag' = Q.t
       /\ enq_count' = Q.n
       /\ visit_log' = Append(visit_log,
                              [url |-> url, hash |-> structural_hash])

\* Scout._process_page for the entry in flight.  Inputs: the answer to
\* page.goto, page.url afterwards, and the call that raises, if any.
ProcessPage ==
    /\ UNCHANGED <<login_vars, net_vars, other_vars>>
    /\ pc = "visiting"
    /\ pc' = "loop"
    /\ cur' = NoEntry
    /\ \E response \in NavResults, final_url \in FinalUrls(cur.url),
          exc \in Exceptions :
        LET html == Html(final_url)
            is_new == generate_structural_hash(html) \notin DOMAIN clusters
            plain == /\ response = [kind |-> "response", status |-> 200]
                     /\ final_url = cur.url
                     /\ exc = "none"
            kind == IF NavFailed(response) THEN "failed"
                    ELSE IF IsAuthWall(cur.url, final_url) THEN "authwall"
                    ELSE IF exc = "content" THEN "error"
                    ELSE IF exc = "create" THEN "error"
                    ELSE "visited"
        IN /\ exc = "create" => is_new
           /\ plain \/ faults < MaxFaults
           /\ faults' = IF plain THEN faults ELSE faults + 1
           /\ last' = [kind |-> kind, url |-> cur.url, depth |-> cur.depth,
                       nav |-> response,
                       final |-> IF response.kind = "response"
                                 THEN final_url ELSE NoUrl,
                       exc |-> IF kind \in {"error", "visited"}
                               THEN exc ELSE "none"]
           /\ IF kind = "visited"
              THEN Bookkeep(cur.url, cur.depth, html,
                            IF exc = "links" THEN <<>>
                            ELSE PageLinks(final_url))
              ELSE UNCHANGED <<visited_urls, url_queue, clusters,
                               network_logs, pages_crawled,
                               pages_skipped_by_clustering, queue_tag,
                               enq_count, visit_log>>
    /\ UNCHANGED <<config, is_authenticated>>

\* The loop condition is false: browser.close(), statistics, return.
LoopExit ==
    /\ UNCHANGED <<login_vars, net_vars, other_vars>>
    /\ pc = "loop"
    /\ ~LoopGuard
    /\ pc' = "done"
    /\ UNCHANGED <<config, cur, visited_urls, url_queue, clusters,
                   network_logs, pages_crawled, pages_skipped_by_clustering,
                   is_authenticated, history>>

Next ==
    \/ CrawlLogin
    \/ ExtractNavLinks
    \/ AddPriorityUrls
    \/ Pop
    \/ ProcessPage
    \/ LoopExit

Spec == Init /\ [][Next]_vars

\* The event loop runs the crawl coroutine to its end: every renderer call
\* returns, so a step that is possible is eventually taken.
FairSpec == Spec /\ WF_vars(Next)

\* ------------------------------------------- a crawl sent to an index page
\* The initial states of a crawl without credentials whose one priority URL
\* is the index page /hub.
FanInit ==
    /\ max_pages \in 1..FanPages
    /\ max_depth = 1
    /\ priority_urls = << Url("", "/hub", "", "") >>
    /\ has_credentials = FALSE
    /\ pc = "login"
    /\ cur = NoEntry
    /\ visited_urls = {}
    /\ url_queue = << Entry(base_url, 0) >>
    /\ clusters = EmptyMap
    /\ network_logs = EmptyMap
    /\ pages_crawled = 0
    /\ pages_skipped_by_clustering = 0
    /\ is_authenticated = FALSE
    /\ queue_tag = << [prio |-> FALSE, n |-> 0] >>
    /\ enq_count = 1
    /\ visit_log = <<>>
    /\ faults = 0
    /\ last = NoLast
    /\ login_state = "Start"
    /\ login_obs = NoObs
    /\ page_url = NoUrl
    /\ loaded = NoLoaded
    /\ tasks = {}
    /\ resp_count = 0
    /\ resp_last = NoEvent
    /\ SimpleIdle
    /\ PureIdle

FanSpec == FanInit /\ [][Next]_vars

\* ------------------------------------------------ the login flow, stepwise
\* The initial states of a crawl with a login: the renderer's observations
\* during _perform_login are fixed, the crawl after it is a small one.
LoginInit ==
    /\ max_pages \in 1..LoginPages
    /\ max_depth = 1
    /\ priority_urls = <<>>
    /\ has_credentials \in BOOLEAN
    /\ pc = "login"
    /\ cur = NoEntry
    /\ visited_urls = {}
    /\ url_queue = << Entry(base_url, 0) >>
    /\ clusters = EmptyMap
    /\ network_logs = EmptyMap
    /\ pages_crawled = 0
    /\ pages_skipped_by_clustering = 0
    /\ is_authenticated = FALSE
    /\ queue_tag = << [prio |-> FALSE, n |-> 0] >>
    /\ enq_count = 1
    /\ visit_log = <<>>
    /\ faults = 0
    /\ last = NoLast
    /\ login_state = "Start"
    /\ login_obs \in (IF has_credentials THEN LoginObs ELSE {NoObs})
    /\ page_url = NoUrl
    /\ loaded = NoLoaded
    /\ tasks = {}
    /\ resp_count = 0
    /\ resp_last = NoEvent
    /\ SimpleIdle
    /\ PureIdle

\* One step of _perform_login; the flag is set in the step that verifies.
LoginStep ==
    /\ pc = "login"
    /\ has_credentials
    /\ login_state \in LoginSteps
    /\ login_state' = LoginExcept(LoginTry(login_state, login_obs))
    /\ is_authenticated' = (is_authenticated \/ AuthFlag(login_state'))
    /\ UNCHANGED <<config, pc, cur, visited_urls, url_queue, clusters,
                   network_logs, pages_crawled, pages_skipped_by_clustering,
                   history, login_obs, net_vars, other_vars>>

\* _perform_login returns (its value is not looked at), or is not called
\* for want of credentials: crawl() goes on with the navigation scan.
LoginReturn ==
    /\ pc = "login"
    /\ has_credentials => login_state \in LoginTerminal
    /\ pc' = "nav"
    /\ login_obs' = NoObs
    /\ UNCHANGED <<config, cur, visited_urls, url_queue, clusters,
                   network_logs, pages_crawled, pages_skipped_by_clustering,
                   is_authenticated, history, login_state, net_vars,
                   other_vars>>

LoginNext ==
    \/ LoginStep
    \/ LoginReturn
    \/ ExtractNavLinks
    \/ AddPriorityUrls
    \/ Pop
    \/ ProcessPage
    \/ LoopExit

LoginSpec == LoginInit /\ [][LoginNext]_vars

\* Every renderer call of the flow has a timeout, so every step is taken.
LoginFairSpec == LoginSpec /\ WF_vars(LoginNext)

\* ------------------------------------- the crawl loop with response events
\* The state of a crawl at the head of its loop, no credentials and no
\* priority URLs given, the navigation scan having failed before the
\* homepage was loaded.
NetInit ==
    /\ max_pages = NetPages
    /\ max_depth = 1
    /\ priority_urls = <<>>
    /\ has_credentials = FALSE
    /\ pc = "loop"
    /\ cur = NoEntry
    /\ visited_urls = {}
    /\ url_queue = << Entry(base_url, 0) >>
    /\ clusters = EmptyMap
    /\ network_logs = EmptyMap
    /\ pages_crawled = 0
    /\ pages_skipped_by_clustering = 0
    /\ is_authenticated = FALSE
    /\ queue_tag = << [prio |-> FALSE, n |-> 0] >>
    /\ enq_count = 1
    /\ visit_log = <<>>
    /\ faults = 0
    /\ last = NoLast
    /\ login_state = "Start"
    /\ login_obs = NoObs
    /\ page_url = NoUrl
    /\ loaded = NoLoaded
    /\ tasks = {}
    /\ resp_count = 0
    /\ resp_last = NoEvent
    /\ SimpleIdle
    /\ PureIdle

\* _process_page up to the return of page.goto (scout.py 366-373).  The tab
\* shows the final URL once there is a response; a failed navigation ends
\* the visit.
Goto ==
    /\ pc = "visiting"
    /\ \E response \in NavResults, final_url \in FinalUrls(cur.url) :
        LET plain == /\ response = [kind |-> "response", status |-> 200]
                     /\ final_url = cur.url
        IN /\ plain \/ faults < MaxFaults
           /\ faults' = IF plain THEN faults ELSE faults + 1
           /\ page_url' = IF response.kind = "response"
                          THEN final_url ELSE page_url
           /\ IF NavFailed(response)
              THEN /\ pc' = "loop"
                   /\ cur' = NoEntry
                   /\ loaded' = NoLoaded
                   /\ last' = [kind |-> "failed", url |-> cur.url,
                               depth |-> cur.depth, nav |-> response,
                               final |-> IF response.kind = "response"
                                         THEN final_url ELSE NoUrl,
                               exc |-> "none"]
              ELSE /\ pc' = "loaded"
                   /\ cur' = cur
                   /\ loaded' = [response |-> response,
                                 final_url |-> final_url]
                   /\ last' = last
    /\ UNCHANGED <<config, visited_urls, url_queue, clusters, network_logs,
                   pages_crawled, pages_skipped_by_clustering,
                   is_authenticated, queue_tag, enq_count, visit_log,
                   login_vars, other_vars, tasks, resp_count, resp_last>>

\* _process_page after the waits (scout.py 380-423): the auth-wall test,
\* page.content(), and the bookkeeping.
Finish ==
    /\ pc = "loaded"
    /\ pc' = "loop"
    /\ cur' = NoEntry
    /\ loaded' = NoLoaded
    /\ \E exc \in Exceptions :
        LET final_url == loaded.final_url
            html == Html(final_url)
            is_new == generate_structural_hash(html) \notin DOMAIN clusters
            kind == IF IsAuthWall(cur.url, final_url) THEN "authwall"
                    ELSE IF exc = "content" THEN "error"
                    ELSE IF exc = "create" THEN "error"
                    ELSE "visited"
        IN /\ exc = "create" => is_new
           /\ exc = "none" \/ faults < MaxFaults
           /\ faults' = IF exc = "none" THEN faults ELSE faults + 1
           /\ last' = [kind |-> kind, url |-> cur.url, depth |-> cur.depth,
                       nav |-> loaded.response, final |-> final_url,
                       exc |-> IF kind \in {"error", "visited"}
                               THEN exc ELSE "none"]
           /\ IF kind = "visited"
              THEN Bookkeep(cur.url, cur.depth, html,
                            IF exc = "links" THEN <<>>
                            ELSE PageLinks(final_url))
              ELSE UNCHANGED <<visited_urls, url_queue, clusters,
                               network_logs, pages_crawled,
                               pages_skipped_by_clustering, queue_tag,
                               enq_count, visit_log>>
    /\ UNCHANGED <<config, is_authenticated, login_vars, other_vars,
                   page_url, tasks,
                   resp_count, resp_last>>

\* page.on("response", ...): the task created for a response runs
\* _handle_response up to its first await; past the filter it waits for
\* response.json().  The request was issued by the document in the tab.
\* Tasks run while crawl() is suspended in an await of _process_page.
ResponseEvent(events) ==
    /\ pc \in {"visiting", "loaded"}
    /\ page_url # NoUrl
    /\ resp_count < MaxResponses
    /\ \E ev \in events :
        /\ resp_count' = resp_count + 1
        /\ resp_last' = ev
        /\ tasks' = IF PassesFilter(ev)
                    THEN tasks \cup { [id |-> resp_count + 1, ev |-> ev,
                                       origin |-> page_url] }
                    ELSE tasks
    /\ UNCHANGED <<config, pc, cur, visited_urls, url_queue, clusters,
                   network_logs, pages_crawled, pages_skipped_by_clustering,
                   is_authenticated, history, login_vars, other_vars,
                   page_url, loaded>>

\* _handle_response after response.json() (scout.py 472-490), run while the
\* crawl coroutine is suspended: the intercept is built, request.frame.url
\* is read, and the intercept is appended to the buffer; an exception on
\* the way is swallowed.
HandleResponse(t) ==
    /\ pc \in {"visiting", "loaded"}
    /\ t \in tasks
    /\ tasks' = tasks \ {t}
    /\ LET key == AttributionKey(t.ev, t.origin, page_url)
       IN network_logs' = IF Validates(t.ev)
                          THEN Record(network_logs, key, Intercept(t, key))
                          ELSE network_logs
    /\ UNCHANGED <<config, pc, cur, visited_urls, url_queue, clusters,
                   pages_crawled, pages_skipped_by_clustering,
                   is_authenticated, history, login_vars, other_vars,
                   page_url, loaded,
                   resp_count, resp_last>>

NetNext ==
    \/ Pop
    \/ Goto
    \/ Finish
    \/ LoopExit
    \/ ResponseEvent(NetEvents)
    \/ \E t \in tasks : HandleResponse(t)

NetSpec == NetInit /\ [][NetNext]_vars

\* ----------------------------------- a URL that is in the frontier twice
\* The state of a crawl at the head of its loop, configured with the same
\* priority URL twice (step 3 inserts each at the front when it is not
\* visited, whether or not it is queued), no credentials, the navigation
\* scan having failed before the homepage was loaded.
RetryInit ==
    /\ max_pages = RetryPages
    /\ max_depth = 1
    /\ priority_urls = << Url("", "/p1", "", ""), Url("", "/p1", "", "") >>
    /\ has_credentials = FALSE
    /\ pc = "loop"
    /\ cur = NoEntry
    /\ visited_urls = {}
    /\ url_queue = << Entry(U("/p1"), 0), Entry(U("/p1"), 0),
                      Entry(base_url, 0) >>
    /\ clusters = EmptyMap
    /\ network_logs = EmptyMap
    /\ pages_crawled = 0
    /\ pages_skipped_by_clustering = 0
    /\ is_authenticated = FALSE
    /\ queue_tag = << [prio |-> TRUE, n |-> 2], [prio |-> TRUE, n |-> 1],
                      [prio |-> FALSE, n |-> 0] >>
    /\ enq_count = 3
    /\ visit_log = <<>>
    /\ faults = 0
    /\ last = NoLast
    /\ login_state = "Start"
    /\ login_obs = NoObs
    /\ page_url = NoUrl
    /\ loaded = NoLoaded
    /\ tasks = {}
    /\ resp_count = 0
    /\ resp_last = NoEvent
    /\ SimpleIdle
    /\ PureIdle

\* await page.goto(url, wait_until='domcontentloaded') (scout.py 369), the
\* part before it returns: the navigation commits, the tab shows the
\* requested URL, and the document starts to issue requests while the
\* coroutine is still suspended in goto.
Commit ==
    /\ pc = "visiting"
    /\ page_url # cur.url
    /\ page_url' = cur.url
    /\ UNCHANGED <<config, pc, cur, visited_urls, url_queue, clusters,
                   network_logs, pages_crawled, pages_skipped_by_clustering,
                   is_authenticated, history, login_vars, other_vars,
                   loaded, tasks,
                   resp_count, resp_last>>

RetryNext ==
    \/ Pop
    \/ Commit
    \/ Goto
    \/ Finish
    \/ LoopExit
    \/ ResponseEvent(NetEvents)
    \/ \E t \in tasks : HandleResponse(t)

RetrySpec == RetryInit /\ [][RetryNext]_vars

\* ------------------------------ the crawl loop with responses of any kind
\* The crawl of a site whose API also answers POST requests and answers
\* with JSON arrays.
HandlerNext ==
    \/ Pop
    \/ Goto
    \/ Finish
    \/ LoopExit
    \/ ResponseEvent(ResponseEvents)
    \/ \E t \in tasks : HandleResponse(t)

HandlerSpec == NetInit /\ [][HandlerNext]_vars

\* ------------------------------------------------ the operator's interrupt
\* Where an interrupt (SIGINT) finds crawl() in its loop:
\*   "await"     suspended in a renderer call; the coroutine gets
\*               CancelledError, or KeyboardInterrupt is raised in the event
\*               loop and the coroutine is cancelled: crawl() does not return
\*   "head"      running the head of the loop between two entries
\*   "resolved"  running _process_page just after the cluster branch
\*               (scout.py 398-410), before the drain
\*   "marked"    running _process_page between visited_urls.add (416) and
\*               pages_crawled += 1 (417)
\* In the last three KeyboardInterrupt is raised in the coroutine, passes
\* `except Exception` (422) and is caught by crawl() (101).
InterruptPoints == {"await", "head", "resolved", "marked"}

Interrupt ==
    /\ pc \in {"loop", "visiting"}
    /\ \E point \in InterruptPoints :
        LET html == Html(cur.url)
            structural_hash == generate_structural_hash(html)
            cluster == IF structural_hash \notin DOMAIN clusters
                       THEN CreateCluster(cur.url, structural_hash, html)
                       ELSE MergeCluster(clusters[structural_hash], cur.url)
            drained == IF cur.url \in DOMAIN network_logs
                       THEN [cluster EXCEPT !.network_intercepts =
                                                @ \o network_logs[cur.url]]
                       ELSE cluster
        IN /\ point = "head" => pc = "loop"
           /\ point \in {"resolved", "marked"} => pc = "visiting"
           /\ pc' = IF point = "await" THEN "aborted" ELSE "done"
           /\ last' = [NoLast EXCEPT !.kind = "interrupted", !.url = cur.url,
                                     !.depth = cur.depth, !.exc = point]
           /\ clusters' =
                  CASE point = "resolved" ->
                         Put(clusters, structural_hash, cluster)
                    [] point = "marked" ->
                         Put(clusters, structural_hash, drained)
                    [] OTHER -> clusters
           /\ pages_skipped_by_clustering' =
                  IF point \in {"resolved", "marked"}
                       /\ structural_hash \in DOMAIN clusters
                  THEN pages_skipped_by_clustering + 1
                  ELSE pages_skipped_by_clustering
           /\ network_logs' = IF point = "marked"
                              THEN DrainedLogs(network_logs, cur.url)
                              ELSE network_logs
           /\ visited_urls' = IF point = "marked"
                              THEN visited_urls \cup {cur.url}
                              ELSE visited_urls
    /\ UNCHANGED <<config, cur, url_queue, pages_crawled, is_authenticated,
                   queue_tag, enq_count, visit_log, faults, login_vars,
                   net_vars, other_vars>>

InterruptNext ==
    \/ Next
    \/ Interrupt

InterruptSpec == Init /\ [][InterruptNext]_vars

\* ------------------------------------------- SimpleScout (simple_scout.py)
\* No Scout has been constructed.
ScoutIdle ==
    /\ max_pages = 0
    /\ max_depth = 0
    /\ priority_urls = <<>>
    /\ has_credentials = FALSE
    /\ pc = "done"
    /\ cur = NoEntry
    /\ visited_urls = {}
    /\ url_queue = <<>>
    /\ clusters = EmptyMap
    /\ network_logs = EmptyMap
    /\ pages_crawled = 0
    /\ pages_skipped_by_clustering = 0
    /\ is_authenticated = FALSE
    /\ queue_tag = <<>>
    /\ enq_count = 0
    /\ visit_log = <<>>
    /\ faults = 0
    /\ last = NoLast
    /\ login_state = "Start"
    /\ login_obs = NoObs
    /\ page_url = NoUrl
    /\ loaded = NoLoaded
    /\ tasks = {}
    /\ resp_count = 0
    /\ resp_last = NoEvent

\* re.findall(r'<(\w+)', html.lower()) as a set: the tags that occur in the
\* document of each template.
Tags(shape) ==
    CASE shape = "home" -> {"html", "body", "nav", "a"}
      [] shape = "form" -> {"html", "body", "form", "input"}
      [] shape = "cart" -> {"html", "body", "a", "form"}
      [] OTHER -> {"html", "body", "a", "img"}

\* SimplePage._get_structure and hash(): ''.join(sorted(set(tags))) is one
\* string per set of tags, and hash() one number per string (collisions
\* left aside).
GetStructure(html) == Tags(html.shape)

\* SimplePage(url, html)
SimplePage(url, html) ==
    [url |-> url, html |-> html, hash |-> GetStructure(html)]

\* SimpleScout._visit: None (page FALSE) when the URL is visited or when a
\* renderer call raises; ok is whether the renderer calls return.
SimpleVisit(url, ok) ==
    IF url \in simple_visited \/ ~ok
    THEN [visited |-> simple_visited, page |-> FALSE, data |-> <<>>]
    ELSE [visited |-> simple_visited \cup {url}, page |-> TRUE,
          data |-> << SimplePage(url, Html(url)) >>]

\* SimpleScout._get_links, the loop: the a.href of the document that are on
\* the domain, cut to scheme, host and path, and not visited.
RECURSIVE Internal(_, _, _)
Internal(links, current, seen) ==
    IF links = <<>> THEN <<>>
    ELSE LET parsed == UrlJoin(current, Head(links))
             clean == CleanUrl(parsed)
             rest == Internal(Tail(links), current, seen)
         IN IF parsed.host = Domain /\ clean \notin seen
            THEN <<clean>> \o rest ELSE rest

\* seq[:n]
Take(seq, n) == SubSeq(seq, 1, Min(n, Len(seq)))

\* SimpleScout._get_links: internal[:20], [] when page.evaluate raises.
GetLinks(current, seen, ok) ==
    IF ok THEN Take(Internal(PageLinks(current), current, seen), 20)
    ELSE <<>>

\* SimpleScout.__init__ and the start of crawl().
SimpleInit ==
    /\ ScoutIdle
    /\ PureIdle
    /\ simple_pc = "start"
    /\ simple_max_pages \in 1..SimplePages
    /\ simple_faults = 0
    /\ simple_visited = {}
    /\ pages = <<>>
    /\ seen_structures = {}
    /\ queue = <<>>

\* crawl(), "Start with homepage": await self._visit(page, self.base_url),
\* whose result is not used, then queue = [self.base_url].
SimpleHomepage ==
    /\ simple_pc = "start"
    /\ \E ok \in BOOLEAN :
        /\ ok \/ simple_faults < MaxFaults
        /\ simple_faults' = IF ok THEN simple_faults ELSE simple_faults + 1
        /\ simple_visited' = SimpleVisit(base_url, ok).visited
    /\ queue' = << base_url >>
    /\ simple_pc' = "loop"
    /\ UNCHANGED <<config, pc, cur, visited_urls, url_queue, clusters,
                   network_logs, pages_crawled, pages_skipped_by_clustering,
                   is_authenticated, history, login_vars, net_vars,
                   pure_vars, simple_max_pages, pages, seen_structures>>

\* while queue and len(self.visited) < self.max_pages
SimpleGuard == queue # <<>> /\ Cardinality(simple_visited) < simple_max_pages

\* crawl(), one iteration of the loop.
SimpleIterate ==
    /\ simple_pc = "loop"
    /\ SimpleGuard
    /\ LET url == Head(queue) IN
        IF url \in simple_visited
        THEN /\ queue' = Tail(queue)
             /\ UNCHANGED <<simple_faults, simple_visited, pages,
                            seen_structures>>
        ELSE \E ok \in BOOLEAN, links_ok \in BOOLEAN :
               LET page_data == SimpleVisit(url, ok)
                   raised == (IF ok THEN 0 ELSE 1)
                               + (IF ok /\ ~links_ok THEN 1 ELSE 0)
               IN /\ ~ok => links_ok
                  /\ simple_faults + raised <= MaxFaults
                  /\ simple_faults' = simple_faults + raised
                  /\ simple_visited' = page_data.visited
                  /\ IF page_data.page
                     THEN LET p == page_data.data[1]
                              links == GetLinks(url, simple_visited', links_ok)
                          IN /\ IF p.hash \notin seen_structures
                                THEN /\ pages' = Append(pages, p)
                                     /\ seen_structures' =
                                            seen_structures \cup {p.hash}
                                ELSE UNCHANGED <<pages, seen_structures>>
                             /\ queue' = Tail(queue) \o Take(links, 10)
                     ELSE /\ queue' = Tail(queue)
                          /\ UNCHANGED <<pages, seen_structures>>
    /\ UNCHANGED <<config, pc, cur, visited_urls, url_queue, clusters,
                   network_logs, pages_crawled, pages_skipped_by_clustering,
                   is_authenticated, history, login_vars, net_vars,
                   pure_vars, simple_pc, simple_max_pages>>

\* crawl(), the loop ends: return self.pages
SimpleReturn ==
    /\ simple_pc = "loop"
    /\ ~SimpleGuard
    /\ simple_pc' = "done"
    /\ UNCHANGED <<config, pc, cur, visited_urls, url_queue, clusters,
                   network_logs, pages_crawled, pages_skipped_by_clustering,
                   is_authenticated, history, login_vars, net_vars,
                   pure_vars, simple_max_pages, simple_faults,
                   simple_visited, pages,
                   seen_structures, queue>>

SimpleNext ==
    \/ SimpleHomepage
    \/ SimpleIterate
    \/ SimpleReturn

SimpleSpec == SimpleInit /\ [][SimpleNext]_vars

\* -------------------------------------------- PageSelector (selector.py)
\* x in path, for the paths of the clusters given to the selector.
Within(x, path) ==
    <<x, path>> \in { <<"/login", "/login">>, <<"/signin", "/signin">>,
                      <<"/cart", "/cart">> }

\* any(x in path for x in xs)
AnyWithin(xs, path) == \E x \in xs : Within(x, path)

\* any(char.isdigit() for char in path), for the same paths.
HasDigit(path) == path \in {"/p1", "/p2", "/p3"}

\* PageSelector._score_cluster, the score of the (score, reason) it returns.
\* The query of the URLs given is empty, so '?' in representative_url is
\* whether the URL has a query.
ScoreCluster(cluster) ==
    LET path == cluster.representative_url.path
        total == cluster.total_pages_in_cluster
    IN IF path \in {"/", "", "/index", "/home"} THEN 150
       ELSE IF AnyWithin({"/login", "/signin", "/sign-in"}, path) THEN 140
       ELSE IF AnyWithin({"/signup", "/register", "/sign-up"}, path) THEN 140
       ELSE IF AnyWithin({"/forgot", "/reset-password", "/recover"}, path)
            THEN 110
       ELSE IF Within("/checkout", path) THEN 130
       ELSE IF Within("/cart", path) \/ Within("/basket", path) THEN 130
       ELSE IF Within("/payment", path) THEN 125
       ELSE IF AnyWithin({"/sell", "/seller", "/become-seller", "/merchant"},
                         path) THEN 120
       ELSE IF AnyWithin({"/account", "/profile", "/dashboard", "/settings"},
                         path) THEN 100
       ELSE IF Within("/orders", path) THEN 90
       ELSE IF Within("/search", path) THEN 80
       ELSE IF AnyWithin({"/contact", "/support", "/help"}, path) THEN 70
       ELSE IF AnyWithin({"/about", "/how-it-works", "/faq"}, path) THEN 60
       ELSE IF AnyWithin({"/product", "/item", "/listing"}, path) THEN 45
       ELSE IF AnyWithin({"/category", "/collection", "/browse"}, path)
            THEN 40
       ELSE IF AnyWithin({"/blog", "/article", "/post", "/news"}, path)
            THEN 35
       ELSE IF AnyWithin({"/p/", "/products/", "/items/"}, path)
                 /\ HasDigit(path) THEN 5
       ELSE IF total > 5 THEN 10
       ELSE IF cluster.representative_url.query # "" THEN 8
       ELSE IF AnyWithin({"/admin", "/api", "/assets", "/static"}, path)
            THEN 0
       ELSE 30

\* A PageCluster as the selector reads it.
Cluster(id, path, total) ==
    [cluster_id |-> id, representative_url |-> U(path),
     total_pages_in_cluster |-> total]

\* The clusters a crawl may hand to the selector.
ClusterPool ==
    { Cluster("home", "", 1), Cluster("login", "/login", 1),
      Cluster("signin", "/signin", 1), Cluster("cart", "/cart", 1),
      Cluster("p1", "/p1", 1), Cluster("p2", "/p2", 7),
      Cluster("p3", "/p3", 2) }

\* The dicts of at most MaxClusters clusters, as their items() in order.
ClusterDicts ==
    UNION { { d \in [1..n -> ClusterPool] :
                \A i, j \in 1..n : d[i] = d[j] => i = j } :
            n \in 0..MaxClusters }

\* for ... in clusters.items(): scored_clusters.append((score, reason,
\* cluster)), the reason left out.
RECURSIVE Scored(_)
Scored(items) ==
    IF items = <<>> THEN <<>>
    ELSE << [score |-> ScoreCluster(Head(items)), cluster |-> Head(items)] >>
            \o Scored(Tail(items))

\* Variant of InsertByScore: the entry goes before the entries of its score.
InsertByScore_BeforeEqual(sorted, x) ==
    LET before == { i \in 1..Len(sorted) : sorted[i].score > x.score }
        n == Cardinality(before)
    IN SubSeq(sorted, 1, n) \o <<x>> \o SubSeq(sorted, n + 1, Len(sorted))

\* One insertion of list.sort(key=lambda x: x[0], reverse=True): sorted is
\* in non-increasing order of score, and the sort is stable, so the entry
\* goes after the entries whose score is at least its own.
InsertByScore(sorted, x) ==
    LET before == { i \in 1..Len(sorted) : sorted[i].score >= x.score }
        n == Cardinality(before)
    IN SubSeq(sorted, 1, n) \o <<x>> \o SubSeq(sorted, n + 1, Len(sorted))

\* scored_clusters.sort(key=lambda x: x[0], reverse=True)
RECURSIVE SortByScore(_)
SortByScore(scored) ==
    IF scored = <<>> THEN <<>>
    ELSE InsertByScore(SortByScore(SubSeq(scored, 1, Len(scored) - 1)),
                       scored[Len(scored)])

\* [cluster for score, reason, cluster in scored_clusters[:max_selected]]
SelectImportantPages(items, k) ==
    LET top == Take(SortByScore(Scored(items)), k)
    IN [i \in 1..Len(top) |-> top[i].cluster]

\* A PageSelector(max_selected) and the clusters of a call.
SelectorInit ==
    /\ ScoutIdle
    /\ SimpleIdle
    /\ selector_pc = "call"
    /\ selector_clusters \in ClusterDicts
    /\ max_selected \in 0..MaxSelected
    /\ selected = <<>>
    /\ html_a = <<>>
    /\ html_b = <<>>
    /\ digests = <<>>

\* PageSelector.select_important_pages(clusters)
Select ==
    /\ selector_pc = "call"
    /\ selector_pc' = "done"
    /\ selected' = SelectImportantPages(selector_clusters, max_selected)
    /\ UNCHANGED <<config, pc, cur, visited_urls, url_queue, clusters,
                   network_logs, pages_crawled, pages_skipped_by_clustering,
                   is_authenticated, history, login_vars, net_vars,
                   simple_vars, selector_clusters, max_selected,
                   fingerprint_vars>>

SelectorNext == Select

SelectorSpec == SelectorInit /\ [][SelectorNext]_vars

\* --------------------------------- the fingerprint (utils/dom_processor.py)
\* A node of the tree BeautifulSoup(html, 'html.parser') gives: an element
\* (a Tag) with its tag name, the token list of its class attribute, its
\* role and type attributes ("" when absent), one more attribute, and its
\* children in document order; or a text node, which is not a Tag.
Elem(tag, class, role, type, other, children) ==
    [tag |-> tag, class |-> class, role |-> role, type |-> type,
     other |-> other, children |-> children]

TextNode(t) == Elem("#text", <<>>, "", "", t, <<>>)

\* isinstance(element, Tag)
IsTag(node) == node.tag # "#text"

\* for tag in soup(['script', 'style', 'svg', 'noscript']): tag.decompose()
RECURSIVE Decompose(_)
RECURSIVE DecomposeAll(_)
Decompose(node) == [node EXCEPT !.children = DecomposeAll(node.children)]

DecomposeAll(nodes) ==
    IF nodes = <<>> THEN <<>>
    ELSE IF Head(nodes).tag \in {"script", "style", "svg", "noscript"}
         THEN DecomposeAll(Tail(nodes))
         ELSE << Decompose(Head(nodes)) >> \o DecomposeAll(Tail(nodes))

\* re.match(r'^[a-z][a-z-]*[a-z]$', cls) and len(cls) > 3, for the class
\* tokens of the documents: "btn" is too short, "Card" and "css-1x2y" do
\* not match.
IsStructuralClass(cls) == cls \in {"card", "price"}

\* The order of sorted() on these tokens.
ClassRank(cls) == IF cls = "card" THEN 1 ELSE 2

\* structural_classes: the tokens kept, in attribute order, each as often as
\* it occurs.
RECURSIVE StructuralClasses(_)
StructuralClasses(tokens) ==
    IF tokens = <<>> THEN <<>>
    ELSE IF IsStructuralClass(Head(tokens))
         THEN << Head(tokens) >> \o StructuralClasses(Tail(tokens))
         ELSE StructuralClasses(Tail(tokens))

\* sorted(structural_classes)
RECURSIVE SortedClasses(_)
SortedClasses(tokens) ==
    IF tokens = <<>> THEN <<>>
    ELSE LET rest == SortedClasses(Tail(tokens))
             rank == ClassRank(Head(tokens))
             n == Cardinality({ i \in 1..Len(rest) :
                                  ClassRank(rest[i]) < rank })
         IN SubSeq(rest, 1, n) \o << Head(tokens) >>
               \o SubSeq(rest, n + 1, Len(rest))

\* node_sig: the tag, the sorted structural classes, the role when it is
\* not empty, the type of an input.  The signature is kept as the list of
\* its parts instead of the string they are formatted into.
NodeSig(element) ==
    [part |-> "open", tag |-> element.tag,
     class |-> SortedClasses(StructuralClasses(element.class)),
     role |-> element.role,
     type |-> IF element.tag = "input" THEN element.type ELSE ""]

CloseSig(element) ==
    [part |-> "close", tag |-> element.tag, class |-> <<>>, role |-> "",
     type |-> ""]

\* _build_structure_tree(element, depth, max_depth=15)
RECURSIVE BuildStructureTree(_, _)
RECURSIVE ChildrenSig(_, _)
BuildStructureTree(element, depth) ==
    IF depth > TreeMaxDepth THEN <<>>
    ELSE IF ~IsTag(element) THEN <<>>
    ELSE << NodeSig(element) >> \o ChildrenSig(element.children, depth + 1)
            \o << CloseSig(element) >>

\* for child in element.children: if isinstance(child, Tag): children_sig +=
ChildrenSig(children, depth) ==
    IF children = <<>> THEN <<>>
    ELSE (IF IsTag(Head(children))
          THEN BuildStructureTree(Head(children), depth)
          ELSE <<>>)
         \o ChildrenSig(Tail(children), depth)

\* utils.dom_processor.generate_structural_hash of a document that parses:
\* the SHA-256 of the signature, one digest per signature (collisions left
\* aside).
GenerateStructuralHash(soup) == BuildStructureTree(Decompose(soup), 0)

\* A chain of div elements from depth d down to an element leaf at depth
\* bottom.
RECURSIVE Chain(_, _, _)
Chain(d, bottom, leaf) ==
    IF d >= bottom THEN Elem(leaf, <<>>, "", "", "", <<>>)
    ELSE Elem("div", <<>>, "", "", "", << Chain(d + 1, bottom, leaf) >>)

\* The documents of a site: one skeleton, filled with a text and an id
\* that go together, a class attribute, a role, an input of some type, and a
\* chain that ends in a span or an em at depth 15 or 16 (the BeautifulSoup
\* object is at depth 0).
Document(text, class, role, type, bottom, leaf) ==
    LET id == IF text = 1 THEN "" ELSE "main"
        container ==
            Elem("div", class, role, "", id,
                 << TextNode(text),
                    Elem("input", <<>>, "", type, id, <<>>),
                    Elem("button", << "btn" >>, "", IF text = 1 THEN "submit"
                                                  ELSE "button", "", <<>>),
                    Elem("script", <<>>, "", "", "", << TextNode(text) >>),
                    Chain(4, bottom, leaf) >>)
    IN Elem("[document]", <<>>, "", "", "",
            << Elem("html", <<>>, "", "", "",
                    << Elem("body", <<>>, "", "", "", << container >>) >>) >>)

ClassAttributes ==
    { << "card", "price" >>, << "price", "card" >>,
      << "card", "card", "price" >>, << "card", "css-1x2y", "price", "btn" >>,
      << "card" >> }

Documents ==
    { Document(text, class, role, type, bottom, leaf) :
        text \in 1..MaxTexts, class \in ClassAttributes,
        role \in {"", "main"}, type \in {"text", "email"},
        bottom \in {TreeMaxDepth, TreeMaxDepth + 1}, leaf \in {"span", "em"} }

\* Two documents to fingerprint.
FingerprintInit ==
    /\ ScoutIdle
    /\ SimpleIdle
    /\ selector_pc = "idle"
    /\ selector_clusters = <<>>
    /\ max_selected = 0
    /\ selected = <<>>
    /\ html_a \in Documents
    /\ html_b \in Documents
    /\ digests = <<>>

\* generate_structural_hash(html_a), generate_structural_hash(html_b)
Fingerprint ==
    /\ digests = <<>>
    /\ html_a # <<>>
    /\ digests' = << GenerateStructuralHash(html_a),
                     GenerateStructuralHash(html_b) >>
    /\ UNCHANGED <<config, pc, cur, visited_urls, url_queue, clusters,
                   network_logs, pages_crawled, pages_skipped_by_clustering,
                   is_authenticated, history, login_vars, net_vars,
                   simple_vars, selector_vars, html_a, html_b>>

FingerprintNext == Fingerprint

FingerprintSpec == FingerprintInit /\ [][FingerprintNext]_vars

\* ------------------------------------------------------------------ claims
ClusterIds == DOMAIN clusters

RECURSIVE SumTotals(_)
SumTotals(ids) ==
    IF ids = {} THEN 0
    ELSE LET h == CHOOSE x \in ids : TRUE
         IN clusters[h].total_pages_in_cluster + SumTotals(ids \ {h})

\* The URLs of the successful visits whose page had fingerprint h, in order.
RECURSIVE VisitsOf(_, _)
VisitsOf(log, h) ==
    IF log = <<>> THEN <<>>
    ELSE IF Head(log).hash = h
         THEN <<Head(log).url>> \o VisitsOf(Tail(log), h)
         ELSE VisitsOf(Tail(log), h)

\* The inputs of a visit, read from the record of the iteration.
GotoFailed(r) ==
    r.nav.kind \in {"none", "timeout"}
        \/ (r.nav.kind = "response" /\ r.nav.status >= 400)
GotoOk(r) == r.nav.kind = "response" /\ r.nav.status < 400
AuthRedirect(r) ==
    /\ GotoOk(r)
    /\ r.final # r.url
    /\ UrlContains("login", r.final) \/ UrlContains("signin", r.final)

\* C1. Dedup invariant: whenever the loop is between two frontier entries
\* (or has stopped), the total_pages_in_cluster of all clusters add up to
\* the number of successfully visited pages, which is pages_crawled.
C1_DedupInvariant ==
    pc \in {"loop", "done"} =>
        /\ SumTotals(ClusterIds) = pages_crawled
        /\ pages_crawled = Len(visit_log)

\* C1 witness: several pages visited into at least two clusters, one of
\* them holding duplicates, after at least one visit that was aborted.
C1_Witness ==
    /\ pc = "loop"
    /\ pages_crawled >= 4
    /\ faults >= 1
    /\ Cardinality(ClusterIds) >= 2
    /\ \E h \in ClusterIds : clusters[h].total_pages_in_cluster >= 2

\* C2. Budget respect: pages_crawled never exceeds max_pages, and the entry
\* being navigated to never has a depth greater than max_depth.
C2_BudgetRespect ==
    /\ pages_crawled <= max_pages
    /\ pc = "visiting" => cur.depth <= max_depth
    /\ last.kind \in {"failed", "authwall", "error", "visited"}
           => last.depth <= max_depth

\* C2 witness: the crawl stopped on its page budget while entries deeper
\* than max_depth were still waiting in the frontier.
C2_Witness ==
    /\ pc = "done"
    /\ pages_crawled = max_pages
    /\ \E i \in 1..Len(url_queue) : url_queue[i].depth > max_depth

\* C3 as stated: once a URL is in visited_urls, no frontier entry carrying
\* it is popped from url_queue again.
C3_NeverPoppedAgain ==
    [][(pc = "loop" /\ Len(url_queue') < Len(url_queue))
           => Head(url_queue).url \notin visited_urls]_vars

\* C3 as amended: an entry whose URL is in visited_urls may be popped, but
\* it is skipped: the entry being navigated to is never a visited URL, the
\* pop of a visited URL is followed by the next iteration, and no URL is
\* visited successfully twice.
C3_NeverVisitedAgain ==
    /\ pc = "visiting" => cur.url \notin visited_urls
    /\ last.kind = "skipped" /\ last.depth <= max_depth
           => last.url \in visited_urls /\ pc # "visiting"
    /\ \A i, j \in 1..Len(visit_log) :
           visit_log[i].url = visit_log[j].url => i = j

\* C3 witness: an entry within the depth budget was popped after its URL had
\* been visited, and skipped.
C3_Witness ==
    /\ last.kind = "skipped"
    /\ last.depth <= max_depth
    /\ last.url \in visited_urls

\* C4. Visited-set invariant: a URL enters visited_urls only in the step that
\* completes a successful visit of that URL (the page is counted in the same
\* step), it was not a member before, and no entry inserted into the
\* frontier by any step carries a URL that is a member of visited_urls at
\* that moment.
C4_VisitedSet ==
    [][/\ visited_urls' # visited_urls =>
            /\ pc = "visiting"
            /\ cur.url \notin visited_urls
            /\ visited_urls' = visited_urls \cup {cur.url}
            /\ GotoOk(last') /\ ~AuthRedirect(last')
            /\ pages_crawled' = pages_crawled + 1
            /\ visit_log' = Append(visit_log, visit_log'[Len(visit_log')])
            /\ visit_log'[Len(visit_log')].url = cur.url
       /\ \A i \in 1..Len(url_queue') :
            queue_tag'[i].n >= enq_count
                => url_queue'[i].url \notin visited_urls']_vars

\* C4 witness: the links of a visited page were extracted and one of them
\* led to a URL that was in visited_urls.
C4_Witness ==
    /\ last.kind = "visited"
    /\ last.exc = "none"
    /\ last.depth < max_depth
    /\ \E i \in 1..Len(PageLinks(last.final)) :
           CleanUrl(PageLinks(last.final)[i]) \in visited_urls

\* C5 as stated: in the frontier no regular entry stands before a priority
\* entry, and two entries of the same class stand in the order of their
\* insertion (entries leave from the head, so this is the dequeue order).
C5_FrontierOrdering ==
    \A i, j \in 1..Len(url_queue) :
        i < j =>
            /\ ~(~queue_tag[i].prio /\ queue_tag[j].prio)
            /\ queue_tag[i].prio = queue_tag[j].prio
                   => queue_tag[i].n < queue_tag[j].n

\* C6. Termination: the loop eventually stops; when it has stopped the
\* frontier is empty or pages_crawled = max_pages; and the pop of an entry
\* that is already visited or deeper than max_depth starts no visit and
\* changes neither pages_crawled, visited_urls nor clusters.
C6_Termination ==
    /\ <>(pc = "done")
    /\ [](pc = "done" => (url_queue = <<>> \/ pages_crawled = max_pages))
    /\ [][(/\ pc = "loop"
           /\ Len(url_queue') < Len(url_queue)
           /\ \/ Head(url_queue).url \in visited_urls
              \/ Head(url_queue).depth > max_depth)
          => /\ pc' = "loop"
             /\ UNCHANGED <<pages_crawled, visited_urls, clusters>>]_vars

\* C6 witness: the loop stopped on an empty frontier, under the page budget,
\* its last pop having skipped an entry.
C6_Witness ==
    /\ pc = "done"
    /\ url_queue = <<>>
    /\ pages_crawled < max_pages
    /\ pages_crawled >= 2
    /\ last.kind = "skipped"

\* C7. Cluster resolution: the n successful visits of pages with one
\* fingerprint give exactly one cluster, keyed by the fingerprint, whose
\* representative_url is the first of these URLs, whose
\* total_pages_in_cluster is n and whose sample_urls are the first min(n, 5)
\* of them in visit order; there is no other cluster.
C7_ClusterResolution ==
    /\ ClusterIds = {visit_log[i].hash : i \in 1..Len(visit_log)}
    /\ \A h \in ClusterIds :
         LET urls == VisitsOf(visit_log, h)
             n == Len(urls)
         IN /\ clusters[h].cluster_id = h
            /\ clusters[h].representative_url = urls[1]
            /\ clusters[h].total_pages_in_cluster = n
            /\ clusters[h].sample_urls = SubSeq(urls, 1, Min(n, 5))

\* C7 witness: two clusters, one of them with more than five pages.
C7_Witness ==
    /\ Cardinality(ClusterIds) >= 2
    /\ \E h \in ClusterIds : Len(VisitsOf(visit_log, h)) >= 6

\* C8. Sample cap: no cluster ever has more than 5 sample URLs.
C8_SampleCap == \A h \in ClusterIds : Len(clusters[h].sample_urls) <= 5

\* C8 witness: a sixth page hit a cluster whose sample list was full.
C8_Witness ==
    \E h \in ClusterIds :
        /\ clusters[h].total_pages_in_cluster >= 6
        /\ Len(clusters[h].sample_urls) = 5

\* C9. Navigation failure: a visit whose navigation gives no response, a
\* status >= 400 or a timeout, or in which another call raises, changes no
\* cluster, does not mark the URL visited, does not count the page, adds no
\* frontier entry, and leaves the loop running.
C9_NavigationFailure ==
    [][(pc = "visiting"
            /\ (GotoFailed(last') \/ last'.exc \in {"content", "create"}))
          => /\ pc' = "loop"
             /\ UNCHANGED <<clusters, visited_urls, pages_crawled,
                            pages_skipped_by_clustering, url_queue>>]_vars

\* C9 witness: a navigation timed out in the middle of a crawl and the loop
\* is at its next iteration with work left.
C9_Witness ==
    /\ pc = "loop"
    /\ last.nav.kind = "timeout"
    /\ last.url \notin visited_urls
    /\ pages_crawled >= 1
    /\ LoopGuard

\* C10. Auth wall: a visit whose final URL differs from the requested URL
\* and contains login or signin changes no cluster, does not mark the URL
\* visited, does not count the page, adds no frontier entry, and leaves the
\* loop running.
C10_AuthWall ==
    [][(pc = "visiting" /\ AuthRedirect(last'))
          => /\ pc' = "loop"
             /\ UNCHANGED <<clusters, visited_urls, pages_crawled,
                            pages_skipped_by_clustering, url_queue>>]_vars

\* C10 witness: a page redirected to the sign-in page was skipped in the
\* middle of a crawl and the loop is at its next iteration.
C10_Witness ==
    /\ pc = "loop"
    /\ last.nav.status = 200
    /\ last.final = U("/signin")
    /\ last.url # U("/signin")
    /\ last.url \notin visited_urls
    /\ pages_crawled >= 1
    /\ LoopGuard

\* C19 as stated: for any max_depth >= 0, no frontier entry with a depth
\* greater than max_depth is ever enqueued (an enqueued entry is in url_queue
\* in the state after the step that enqueued it).
C19_DepthLimit ==
    \A i \in 1..Len(url_queue) : url_queue[i].depth <= max_depth

\* C19 as amended: for any max_depth >= 1 no entry deeper than max_depth is
\* ever enqueued; with max_depth = 0 the only deeper entries are the depth-1
\* entries of the navigation scan.
C19_DepthLimitFromOne ==
    \A i \in 1..Len(url_queue) :
        url_queue[i].depth <= (IF max_depth >= 1 THEN max_depth ELSE 1)

\* C19 witness: a page at depth max_depth >= 1 with links that are not
\* visited was visited without a raise, while an entry of depth max_depth
\* put there by link extraction waits in the frontier.
C19_Witness ==
    /\ max_depth >= 1
    /\ last.kind = "visited"
    /\ last.exc = "none"
    /\ last.depth = max_depth
    /\ \E i \in 1..Len(PageLinks(last.final)) :
           LinkAccepted(PageLinks(last.final)[i], last.url, visited_urls)
    /\ \E i \in 1..Len(url_queue) :
           url_queue[i].depth = max_depth /\ max_depth = 2

\* C20 as stated: every URL held in the frontier or in visited_urls is in
\* canonical form (no query string, no fragment), so that two URLs differing
\* only in query string or fragment are never both visited.
C20_UrlNormalization ==
    /\ \A i \in 1..Len(url_queue) :
           url_queue[i].url = CleanUrl(url_queue[i].url)
    /\ \A u \in visited_urls : u = CleanUrl(u)
    /\ \A u, v \in visited_urls : CleanUrl(u) = CleanUrl(v) => u = v

\* The flow moves forward only.
LoginRank(state) ==
    CASE state = "Start" -> 0
      [] state = "SignInClicked" -> 1
      [] state = "EmailEntered" -> 2
      [] state = "ContinueClicked" -> 3
      [] state = "PasswordPageLoaded" -> 4
      [] state = "PasswordEntered" -> 5
      [] state = "Submitted" -> 6
      [] OTHER -> 7

\* C15. Login outcome: with the renderer's observations fixed, the login
\* flow ends; it moves through its states forward only, one state at a time
\* decided by the observations; and when it returns it is in exactly one of
\* Verified, Unverified and Failed, the one the observations determine, and
\* returns True exactly when that is Verified.
C15_LoginOutcome ==
    /\ <>(pc # "login")
    /\ [](login_state \in LoginSteps \cup LoginTerminal)
    /\ [][login_state' # login_state
            => /\ LoginRank(login_state) < LoginRank(login_state')
               /\ login_obs' = login_obs]_vars
    /\ [][(pc = "login" /\ pc' # "login" /\ has_credentials)
            => /\ login_state \in LoginTerminal
               /\ login_state = PerformLogin(login_obs)
               /\ LoginReturnValue(login_state) = (login_state = "Verified")
               /\ login_state' = login_state]_vars

\* C15 witness: a login went through every step and ended Unverified, and
\* crawl() went on.
C15_Witness ==
    /\ has_credentials
    /\ pc = "nav"
    /\ login_state = "Unverified"

C17_Verification ==
    [][(pc = "login" /\ login_state = "Submitted")
          => /\ login_state' \in {"Verified", "Unverified"}
             /\ (login_state' = "Verified") =
                    (\/ login_obs.indicator
                     \/ /\ login_obs.url = base_url
                        /\ ~UrlContains("login", login_obs.url))]_vars

\* C18. Authentication flag: is_authenticated is true only after a login
\* that ended Verified; it changes at most once, from false to true, in the
\* step that verifies, which is a step of the login and so precedes every
\* pop; and whatever the outcome of the login (or without credentials)
\* crawl() goes on with the navigation scan and runs the loop to its end.
C18_AuthFlag ==
    /\ [](is_authenticated => has_credentials /\ login_state = "Verified")
    /\ [][is_authenticated' # is_authenticated
            => /\ ~is_authenticated
               /\ pc = "login" /\ pc' = "login"
               /\ login_state # "Verified" /\ login_state' = "Verified"]_vars
    /\ [][(pc = "login" /\ pc' # "login") => pc' = "nav"]_vars
    /\ <>(pc = "done")

\* C18 witness: after a Failed login the loop is visiting a page, the flag
\* being false.
C18_Witness ==
    /\ has_credentials
    /\ login_state = "Failed"
    /\ pc = "visiting"
    /\ pages_crawled >= 1
    /\ ~is_authenticated

\* C11 as stated: after an interrupt during the loop, crawl() returns its
\* clusters, and the page that was being processed has completed its
\* bookkeeping: the totals of the clusters add up to pages_crawled, which is
\* the number of visited URLs.
C11_OperatorInterrupt ==
    last.kind = "interrupted" =>
        /\ pc = "done"
        /\ SumTotals(ClusterIds) = pages_crawled
        /\ Cardinality(visited_urls) = pages_crawled

\* The intercepts held in the buffer and in the clusters.
BufferedIntercepts ==
    UNION { { network_logs[k][i] : i \in 1..Len(network_logs[k]) } :
            k \in DOMAIN network_logs }
ClusterIntercepts ==
    UNION { { clusters[h].network_intercepts[i] :
                i \in 1..Len(clusters[h].network_intercepts) } :
            h \in DOMAIN clusters }

\* C12. Intercept drain: the step that completes a successful visit of a
\* URL appends the buffer entry of that URL to the intercepts of the page's
\* cluster and removes the entry, leaving the other entries alone; this is
\* the only step that changes the intercepts of a cluster; and an intercept
\* recorded for a URL after its drain is in no cluster, so whatever the
\* buffer holds for a visited URL was recorded after the drain.
C12_InterceptDrain ==
    /\ [][visited_urls' # visited_urls =>
            LET u == cur.url
                h == visit_log'[Len(visit_log')].hash
                before == IF h \in DOMAIN clusters
                          THEN clusters[h].network_intercepts ELSE <<>>
                buffered == IF u \in DOMAIN network_logs
                            THEN network_logs[u] ELSE <<>>
            IN /\ clusters'[h].network_intercepts = before \o buffered
               /\ DOMAIN network_logs' = DOMAIN network_logs \ {u}
               /\ \A k \in DOMAIN network_logs' :
                      network_logs'[k] = network_logs[k]]_vars
    /\ [][(\E h \in DOMAIN clusters :
              clusters'[h].network_intercepts
                  # clusters[h].network_intercepts)
            => visited_urls' # visited_urls]_vars
    /\ [](\A x \in ClusterIntercepts : ~x.late)
    /\ [](\A u \in visited_urls \cap DOMAIN network_logs :
              \A i \in 1..Len(network_logs[u]) : network_logs[u][i].late)

\* C12 witness: an intercept was drained into the cluster of the homepage,
\* and another one recorded for the homepage after the drain sits in the
\* buffer.
C12_Witness ==
    /\ \E x \in ClusterIntercepts : x.origin = base_url
    /\ base_url \in visited_urls
    /\ base_url \in DOMAIN network_logs

\* C13 as stated: every buffered intercept is in the entry keyed by the URL
\* the tab had when its response event fired (by the response URL when
\* there is no frame), and every intercept of a cluster with a frame was
\* triggered by a page visited into that cluster.
C13_InterceptAttribution ==
    /\ \A k \in DOMAIN network_logs :
         \A i \in 1..Len(network_logs[k]) :
            LET x == network_logs[k][i]
            IN k = (IF x.ev.frame THEN x.origin ELSE x.url)
    /\ \A h \in DOMAIN clusters :
         \A i \in 1..Len(clusters[h].network_intercepts) :
            LET x == clusters[h].network_intercepts[i]
            IN x.ev.frame =>
                 \E j \in 1..Len(visit_log) :
                    visit_log[j].hash = h /\ visit_log[j].url = x.origin

\* C14. Intercept filter: every recorded intercept, and every handler task
\* past the filter, is of a response with a JSON content type to an xhr or
\* fetch request; a response event of any other kind changes neither the
\* buffer, nor the tasks, nor the clusters; and the buffer grows only by a
\* task that passed the filter.
C14_InterceptFilter ==
    /\ [](\A x \in BufferedIntercepts \cup ClusterIntercepts \cup tasks :
              /\ IsJsonType(x.ev.content_type)
              /\ x.ev.resource_type \in {"xhr", "fetch"})
    /\ [][(/\ resp_count' = resp_count + 1
           /\ ~(/\ IsJsonType(resp_last'.content_type)
                /\ resp_last'.resource_type \in {"xhr", "fetch"}))
          => UNCHANGED <<network_logs, tasks, clusters>>]_vars
    /\ [][(/\ network_logs' # network_logs
           /\ visited_urls' = visited_urls)
          => \E t \in tasks :
                /\ t \notin tasks'
                /\ IsJsonType(t.ev.content_type)
                /\ t.ev.resource_type \in {"xhr", "fetch"}]_vars

\* C14 witness: a JSON response to a navigation request was ignored after
\* an intercept had been recorded.
C14_Witness ==
    /\ resp_count = 2
    /\ IsJsonType(resp_last.content_type)
    /\ resp_last.resource_type = "document"
    /\ Cardinality(BufferedIntercepts) = 1
    /\ tasks = {}

\* C24. Cluster frame on a repeated sighting: no step removes a cluster; a
\* cluster changes only in the step that completes a visit of a page with
\* its fingerprint, and then total_pages_in_cluster grows by exactly 1, the
\* URL is appended to sample_urls iff the list had fewer than 5 entries, and
\* representative_url, cluster_id, forms_found, cleaned_dom_tokens and
\* raw_dom_size stay as they were; and every such visit does change it.
C24_ClusterFrame ==
    [][/\ DOMAIN clusters \subseteq DOMAIN clusters'
       /\ \A h \in DOMAIN clusters :
            LET old == clusters[h]
                new == clusters'[h]
                sighting == /\ pc = "visiting"
                            /\ last'.kind = "visited"
                            /\ generate_structural_hash(Html(last'.final)) = h
            IN /\ new # old => sighting
               /\ sighting =>
                    /\ new.total_pages_in_cluster
                           = old.total_pages_in_cluster + 1
                    /\ new.sample_urls =
                           IF Len(old.sample_urls) < 5
                           THEN Append(old.sample_urls, cur.url)
                           ELSE old.sample_urls
                    /\ new.representative_url = old.representative_url
                    /\ new.cluster_id = old.cluster_id
                    /\ new.forms_found = old.forms_found
                    /\ new.cleaned_dom_tokens = old.cleaned_dom_tokens
                    /\ new.raw_dom_size = old.raw_dom_size]_vars

\* C24 witness: the page just visited joined a cluster of at least six
\* pages that another URL represents.
C24_Witness ==
    /\ pc = "loop"
    /\ last.kind = "visited"
    /\ LET h == generate_structural_hash(Html(last.final))
       IN /\ h \in DOMAIN clusters
          /\ clusters[h].total_pages_in_cluster >= 6
          /\ clusters[h].representative_url # last.url
          /\ clusters[h].sample_urls[5] # last.url

\* C28. Counter consistency: whenever the loop is between two frontier
\* entries (or has stopped), the number of visited URLs is pages_crawled
\* and pages_skipped_by_clustering plus the number of clusters is
\* pages_crawled; the login, the navigation scan and the insertion of the
\* priority URLs change neither visited_urls, nor clusters, nor
\* pages_crawled.
C28_CounterConsistency ==
    /\ [](pc \in {"loop", "done"} =>
            /\ Cardinality(visited_urls) = pages_crawled
            /\ pages_skipped_by_clustering + Cardinality(DOMAIN clusters)
                   = pages_crawled)
    /\ [][(pc \in {"login", "nav", "priority"})
            => (/\ visited_urls' = visited_urls
                /\ clusters' = clusters
                /\ pages_crawled' = pages_crawled)]_vars

\* C28 witness: after a login and a navigation scan that enqueued entries,
\* four pages were visited, two of them into existing clusters.
C28_Witness ==
    /\ pc = "loop"
    /\ has_credentials
    /\ is_authenticated
    /\ enq_count >= 5
    /\ pages_crawled = 4
    /\ pages_skipped_by_clustering = 2

\* C23 as stated: the step that completes a successful visit of a page at
\* depth d leaves the entries of the queue in place and appends at most 10
\* entries, all at depth d+1 and each for one of the first 10 links of the
\* page.
C23_FanOutBound ==
    [][(pc = "visiting" /\ last'.kind = "visited")
          => LET links == PageLinks(last'.final)
                 n == Len(url_queue)
             IN /\ Len(url_queue') >= n
                /\ SubSeq(url_queue', 1, n) = url_queue
                /\ Len(url_queue') <= n + 10
                /\ \A i \in (n + 1)..Len(url_queue') :
                      /\ url_queue'[i].depth = cur.depth + 1
                      /\ \E j \in 1..Min(10, Len(links)) :
                            url_queue'[i].url
                                = CleanUrl(UrlJoin(cur.url, links[j]))]_vars

\* C27. Login step order: every step of the flow leads to the next state of
\* the order Start, SignInClicked, EmailEntered, ContinueClicked,
\* PasswordPageLoaded, PasswordEntered, Submitted, outcome, or to Failed;
\* the password is entered only from PasswordPageLoaded, that is after the
\* page-load wait has returned; and when that wait fails the flow ends
\* Failed.
C27_LoginStepOrder ==
    /\ [][login_state' # login_state
            => \/ login_state' = "Failed"
               \/ LoginRank(login_state') = LoginRank(login_state) + 1]_vars
    /\ [][(login_state' = "PasswordEntered" /\ login_state # "PasswordEntered")
            => login_state = "PasswordPageLoaded" /\ login_obs.load]_vars
    /\ [][(/\ pc = "login"
           /\ has_credentials
           /\ login_state = "ContinueClicked"
           /\ ~login_obs.load)
            => login_state' = "Failed"]_vars

\* C27 witness: the flow went through all its steps and has submitted with
\* a submit button.
C27_Witness ==
    /\ pc = "login"
    /\ login_state = "Submitted"
    /\ login_obs.load
    /\ login_obs.button

\* The places that hold the intercept numbered n: entries of the buffer and
\* of the clusters' lists.
PlacesOf(n) ==
    { p \in { <<"buffer", k, i>> : k \in DOMAIN network_logs,
                                   i \in 1..MaxResponses } :
        /\ p[3] <= Len(network_logs[p[2]])
        /\ network_logs[p[2]][p[3]].id = n }
    \cup
    { p \in { <<"cluster", h, i>> : h \in DOMAIN clusters,
                                    i \in 1..MaxResponses } :
        /\ p[3] <= Len(clusters[p[2]].network_intercepts)
        /\ clusters[p[2]].network_intercepts[p[3]].id = n }

\* C25. Intercept ownership: every recorded intercept is in exactly one
\* place, an entry of the buffer or the list of one cluster; no step loses
\* or duplicates a recorded intercept; and the list of a cluster only grows
\* at its end, so an intercept in a cluster is never changed or moved.
C25_InterceptOwnership ==
    /\ [](\A x \in BufferedIntercepts \cup ClusterIntercepts :
              Cardinality(PlacesOf(x.id)) = 1)
    /\ [][BufferedIntercepts \cup ClusterIntercepts
            \subseteq BufferedIntercepts' \cup ClusterIntercepts']_vars
    /\ [][ClusterIntercepts \subseteq ClusterIntercepts']_vars
    /\ [][\A h \in DOMAIN clusters :
            LET old == clusters[h].network_intercepts
                new == clusters'[h].network_intercepts
            IN /\ Len(new) >= Len(old)
               /\ SubSeq(new, 1, Len(old)) = old]_vars

\* C25 witness: the crawl is between two visits with one intercept drained
\* into a cluster and one still in the buffer.
C25_Witness ==
    /\ pc = "loop"
    /\ Cardinality(ClusterIntercepts) = 1
    /\ Cardinality(BufferedIntercepts) = 1

\* C29. Aborted visits keep their buffer: a visit that ends on a failed
\* navigation, or on a redirect to a sign-in page, changes neither
\* visited_urls nor the buffer; as long as a URL is not visited its buffer
\* entry stays and only grows at its end; and the step that completes a
\* successful visit of the URL moves the whole entry, whatever was buffered
\* during earlier attempts included, to the end of the intercepts of that
\* visit's cluster.
C29_AbortedVisitBuffer ==
    /\ [][(pc = "visiting" /\ pc' = "loop")
            => /\ GotoFailed(last')
               /\ visited_urls' = visited_urls
               /\ network_logs' = network_logs]_vars
    /\ [][(/\ pc = "loaded"
           /\ pc' = "loop"
           /\ loaded.final_url # cur.url
           /\ \/ UrlContains("login", loaded.final_url)
              \/ UrlContains("signin", loaded.final_url))
            => /\ visited_urls' = visited_urls
               /\ network_logs' = network_logs]_vars
    /\ [][\A k \in DOMAIN network_logs :
            k \notin visited_urls'
              => /\ k \in DOMAIN network_logs'
                 /\ Len(network_logs'[k]) >= Len(network_logs[k])
                 /\ SubSeq(network_logs'[k], 1, Len(network_logs[k]))
                        = network_logs[k]]_vars
    /\ [][(visited_urls' # visited_urls /\ cur.url \in DOMAIN network_logs)
            => LET h == generate_structural_hash(Html(last'.final))
                   new == clusters'[h].network_intercepts
                   buffered == network_logs[cur.url]
               IN /\ visited_urls' = visited_urls \cup {cur.url}
                  /\ Len(new) >= Len(buffered)
                  /\ SubSeq(new, Len(new) - Len(buffered) + 1, Len(new))
                         = buffered
                  /\ cur.url \notin DOMAIN network_logs']_vars

\* C29 witness: the first visit of /p1 was aborted on a failed navigation
\* with an intercept buffered for /p1, the entry is still in the buffer, and
\* the next frontier entry is /p1 again.
C29_Witness ==
    /\ pc = "loop"
    /\ last.kind = "failed"
    /\ last.url = U("/p1")
    /\ U("/p1") \in DOMAIN network_logs
    /\ U("/p1") \notin visited_urls
    /\ url_queue # <<>>
    /\ Head(url_queue).url = U("/p1")

\* C26 as stated: the handler of a response that passed the filter always
\* records an intercept, whose payload is the parsed request body when the
\* method is POST, PUT or PATCH and the body is there and parses, and is
\* absent otherwise.
C26_PayloadCapture ==
    [][\A t \in tasks :
         t \notin tasks'
           => \E x \in BufferedIntercepts' :
                /\ x.id = t.id
                /\ x \notin BufferedIntercepts
                /\ x.payload_structure =
                     (IF /\ t.ev.method \in {"POST", "PUT", "PATCH"}
                         /\ t.ev.post_data = "object"
                      THEN "object" ELSE "none")]_vars

\* C30 as stated: when SimpleScout.crawl returns, the pages it returns have
\* exactly the structure hashes of the pages it visited, one page per hash,
\* the homepage included.
C30_SimpleCrawl ==
    simple_pc = "done" =>
        /\ { pages[i].hash : i \in 1..Len(pages) }
              = { GetStructure(Html(u)) : u \in simple_visited }
        /\ \A i, j \in 1..Len(pages) : pages[i].hash = pages[j].hash => i = j

\* The position of a cluster in the items() of the selector's argument.
InputIndex(c) ==
    CHOOSE i \in 1..Len(selector_clusters) : selector_clusters[i] = c

\* C22. Selection: a call of select_important_pages on n clusters with
\* max_selected = k returns min(k, n) clusters of its argument, each once,
\* in non-increasing order of score; no omitted cluster scores higher than
\* a returned one; and clusters of equal score are in their input order,
\* the returned ones before the omitted ones.
C22_Selection ==
    selector_pc = "done" =>
        LET n == Len(selector_clusters)
            input == { selector_clusters[i] : i \in 1..n }
            returned == { selected[i] : i \in 1..Len(selected) }
        IN /\ Len(selected) = Min(max_selected, n)
           /\ returned \subseteq input
           /\ \A i, j \in 1..Len(selected) :
                 selected[i] = selected[j] => i = j
           /\ \A i, j \in 1..Len(selected) :
                 i < j => ScoreCluster(selected[i]) >= ScoreCluster(selected[j])
           /\ \A c \in input \ returned : \A r \in returned :
                 /\ ScoreCluster(c) <= ScoreCluster(r)
                 /\ ScoreCluster(c) = ScoreCluster(r)
                       => InputIndex(r) < InputIndex(c)
           /\ \A i, j \in 1..Len(selected) :
                 (/\ i < j
                  /\ ScoreCluster(selected[i]) = ScoreCluster(selected[j]))
                    => InputIndex(selected[i]) < InputIndex(selected[j])

\* C22 witness: of three clusters the two with the higher, equal score were
\* returned in their input order and the first of the argument was omitted.
C22_Witness ==
    /\ selector_pc = "done"
    /\ Len(selector_clusters) = 3
    /\ max_selected = 2
    /\ selected = << selector_clusters[2], selector_clusters[3] >>
    /\ ScoreCluster(selected[1]) = ScoreCluster(selected[2])

\* The element children of a node, and the set of its class tokens that
\* pass the filter.
RECURSIVE ElementsOf(_)
ElementsOf(nodes) ==
    IF nodes = <<>> THEN <<>>
    ELSE IF IsTag(Head(nodes)) THEN << Head(nodes) >> \o ElementsOf(Tail(nodes))
    ELSE ElementsOf(Tail(nodes))

FilteredClassSet(node) ==
    { node.class[i] : i \in { j \in 1..Len(node.class) :
                               IsStructuralClass(node.class[j]) } }

\* Two trees have the same tag nesting and, on every element down to depth
\* 15, the same filtered class set, role and input type.
RECURSIVE SameStructure(_, _, _)
SameStructure(a, b, depth) ==
    \/ depth > 15
    \/ /\ a.tag = b.tag
       /\ FilteredClassSet(a) = FilteredClassSet(b)
       /\ a.role = b.role
       /\ a.tag = "input" => a.type = b.type
       /\ LET ca == ElementsOf(a.children)
              cb == ElementsOf(b.children)
          IN \/ depth + 1 > 15
             \/ /\ Len(ca) = Len(cb)
                /\ \A i \in 1..Len(ca) :
                      SameStructure(ca[i], cb[i], depth + 1)

\* C21 as stated: two documents with the same tag nesting and the same
\* filtered class set, role and input type on every element down to depth
\* 15 get the same digest.
C21_FingerprintDeterminism ==
    (digests # <<>> /\ SameStructure(html_a, html_b, 0))
        => digests[1] = digests[2]

====
